---------------------------- MODULE Spec2Model ----------------------------
(***************************************************************************)
(* A model of clipper-rs: the ClipEmbedder factory (ClipEmbedder::new with *)
(* get_device and get_tokenizer), the embedding calls of a constructed     *)
(* ClipEmbedder, and the cosine_similarity helper of the driver programs.  *)
(*                                                                         *)
(* Three specifications share the variables:                               *)
(*   SpecNew  one call of ClipEmbedder::new on every combination of        *)
(*            arguments and environment;                                   *)
(*   Spec     embedding calls issued by several threads on one Embedder    *)
(*            that a successful ClipEmbedder::new returned;                *)
(*   SpecCos  cosine_similarity applied to small vectors.                  *)
(*                                                                         *)
(* Numbers: an f32 tensor element is an integer in units of 1/255, so that *)
(* the affine transform v * (2/255) - 1 of load_image is exact.            *)
(***************************************************************************)
EXTENDS Integers, Sequences, FiniteSets, TLC

VARIABLES
    args,        \* the arguments of ClipEmbedder::new (main.rs Args: model, tokenizer, cpu)
    env,         \* what the machine offers: accelerators, hub, target
    newResult,   \* what ClipEmbedder::new returned: Pending, Ok or Err(e)
    embedder,    \* the ClipEmbedder value, None until new returned Ok
    device_sel,  \* what get_device did: its result, the probes it ran, its notice
    hub_gets,    \* the artifacts requested from the hub, in order
    steps,       \* the steps ClipEmbedder::new attempted, in order
    pc,          \* per thread: where its embedding call stands
    req,         \* per thread: the request being served
    tmp,         \* per thread: the tensor in flight
    result,      \* per thread: the Result the call returned
    trace,       \* per thread: the pipeline steps the call attempted, in order
    failed,      \* whether some embedding call on this Embedder has returned Err
    cos_a, cos_b, \* the two vectors handed to cosine_similarity
    sim          \* what cosine_similarity returned

ctorVars == <<args, env, newResult, embedder, device_sel, hub_gets, steps>>
callVars == <<pc, req, tmp, result, trace, failed>>
cosVars  == <<cos_a, cos_b, sim>>
vars     == <<args, env, newResult, embedder, device_sel, hub_gets, steps,
              pc, req, tmp, result, trace, failed, cos_a, cos_b, sim>>

----------------------------------------------------------------------------
(* Result<T> and Option<T> *)

Ok(v)   == [tag |-> "Ok", val |-> v]
Err(e)  == [tag |-> "Err", err |-> e]
IsOk(r) == r.tag = "Ok"
IsErr(r) == r.tag = "Err"
Pending == [tag |-> "Pending"]

None     == [tag |-> "None"]
Some(v)  == [tag |-> "Some", val |-> v]

----------------------------------------------------------------------------
(* Bounds.  The reference configuration has image_size 224 and             *)
(* projection_dim 512; the model keeps the shapes and scales the sizes.    *)

ImageSize     == 2
ProjectionDim == 2
NumThreads    == 2
MaxCoord      == 1
VecLen        == 2

RgbChannels == 3
MaxPixel    == 255

----------------------------------------------------------------------------
(* The file system and the hub cache *)

HubModelFile     == "hub/model.safetensors"
HubTokenizerFile == "hub/tokenizer.json"

ModelPaths     == {"local/model.safetensors", "local/partial.safetensors",
                   "local/corrupt.safetensors", "local/missing.safetensors"}
TokenizerPaths == {"local/tokenizer.json", "local/corrupt.json", "local/missing.json"}

\* What a path holds: complete CLIP weights, a safetensors file lacking
\* tensors the architecture needs, a tokenizer definition, bytes that parse
\* as neither, or nothing.
FileKind(path) ==
    CASE path \in {HubModelFile, "local/model.safetensors"}  -> "weights"
      [] path = "local/partial.safetensors"                  -> "partial_weights"
      [] path \in {HubTokenizerFile, "local/tokenizer.json"} -> "tokenizer"
      [] path \in {"local/corrupt.safetensors", "local/corrupt.json"} -> "garbage"
      [] OTHER -> "absent"

Envs ==
    [cuda : BOOLEAN, cuda_init : BOOLEAN, metal : BOOLEAN, metal_init : BOOLEAN,
     macos_aarch64 : BOOLEAN,
     hub_api : BOOLEAN, hub_model : BOOLEAN, hub_tokenizer : BOOLEAN]

ArgsSet ==
    [model_path : {None} \cup {Some(p) : p \in ModelPaths},
     tokenizer_path : {None} \cup {Some(p) : p \in TokenizerPaths},
     use_cpu : BOOLEAN]

----------------------------------------------------------------------------
(* get_device *)

\* Mutant: falls back to the general-purpose processor when the accelerator
\* fails to initialize.
get_device_fallback(cpu, e) ==
    IF cpu THEN
        [res |-> Ok("Cpu"), probed |-> <<>>, notice |-> "none"]
    ELSE IF e.cuda THEN
        [res |-> IF e.cuda_init THEN Ok("Cuda") ELSE Ok("Cpu"),
         probed |-> <<"cuda_is_available">>, notice |-> "none"]
    ELSE IF e.metal THEN
        [res |-> IF e.metal_init THEN Ok("Metal") ELSE Ok("Cpu"),
         probed |-> <<"cuda_is_available", "metal_is_available">>, notice |-> "none"]
    ELSE
        [res |-> Ok("Cpu"),
         probed |-> <<"cuda_is_available", "metal_is_available">>,
         notice |-> IF e.macos_aarch64 THEN "build with --features metal"
                                       ELSE "build with --features cuda"]

\* Mutant: probes the accelerators before looking at the cpu flag.
get_device_probe_first(cpu, e) ==
    IF e.cuda /\ ~cpu THEN
        [res |-> IF e.cuda_init THEN Ok("Cuda") ELSE Err("CudaInitError"),
         probed |-> <<"cuda_is_available">>, notice |-> "none"]
    ELSE IF cpu THEN
        [res |-> Ok("Cpu"), probed |-> <<"cuda_is_available">>, notice |-> "none"]
    ELSE IF e.metal THEN
        [res |-> IF e.metal_init THEN Ok("Metal") ELSE Err("MetalInitError"),
         probed |-> <<"cuda_is_available", "metal_is_available">>, notice |-> "none"]
    ELSE
        [res |-> Ok("Cpu"),
         probed |-> <<"cuda_is_available", "metal_is_available">>,
         notice |-> IF e.macos_aarch64 THEN "build with --features metal"
                                       ELSE "build with --features cuda"]

\* Mutant: prefers Metal over CUDA.
get_device_metal_first(cpu, e) ==
    IF cpu THEN
        [res |-> Ok("Cpu"), probed |-> <<>>, notice |-> "none"]
    ELSE IF e.metal THEN
        [res |-> IF e.metal_init THEN Ok("Metal") ELSE Err("MetalInitError"),
         probed |-> <<"metal_is_available">>, notice |-> "none"]
    ELSE IF e.cuda THEN
        [res |-> IF e.cuda_init THEN Ok("Cuda") ELSE Err("CudaInitError"),
         probed |-> <<"metal_is_available", "cuda_is_available">>, notice |-> "none"]
    ELSE
        [res |-> Ok("Cpu"),
         probed |-> <<"cuda_is_available", "metal_is_available">>,
         notice |-> IF e.macos_aarch64 THEN "build with --features metal"
                                       ELSE "build with --features cuda"]

get_device(cpu, e) ==
    IF cpu THEN
        [res |-> Ok("Cpu"), probed |-> <<>>, notice |-> "none"]
    ELSE IF e.cuda THEN
        [res |-> IF e.cuda_init THEN Ok("Cuda") ELSE Err("CudaInitError"),
         probed |-> <<"cuda_is_available">>, notice |-> "none"]
    ELSE IF e.metal THEN
        [res |-> IF e.metal_init THEN Ok("Metal") ELSE Err("MetalInitError"),
         probed |-> <<"cuda_is_available", "metal_is_available">>, notice |-> "none"]
    ELSE
        [res |-> Ok("Cpu"),
         probed |-> <<"cuda_is_available", "metal_is_available">>,
         notice |-> IF e.macos_aarch64 THEN "build with --features metal"
                                       ELSE "build with --features cuda"]

----------------------------------------------------------------------------
(* The hub: Api::new()? then api.get(name)? *)

\* gets: the artifact the hub resolver was called for.
hub_get(name, file, available, e) ==
    [res |-> IF ~e.hub_api THEN Err("HubApiError")
             ELSE IF available THEN Ok(file) ELSE Err("HubGetError"),
     gets |-> <<name>>]

\* lib.rs:26-37
resolve_model_file(model_path, e) ==
    IF model_path = None
    THEN hub_get("model.safetensors", HubModelFile, e.hub_model, e)
    ELSE [res |-> Ok(model_path.val), gets |-> <<>>]

\* Tokenizer::from_file(..).map_err(anyhow::Error::msg)
Vocabulary == [bos |-> 1, eos |-> 2, base |-> 3]

Tokenizer_from_file(file) ==
    IF FileKind(file) = "tokenizer" THEN Ok(Vocabulary)
    ELSE IF FileKind(file) = "absent" THEN Err("TokenizerFileNotFound")
    ELSE Err("TokenizerParseError")

\* Mutant: consults the hub whether or not a path was supplied.
get_tokenizer_always_hub(tokenizer, e) ==
    LET f == hub_get("tokenizer.json", HubTokenizerFile, e.hub_tokenizer, e)
    IN  IF IsErr(f.res) THEN f
        ELSE [res |-> Tokenizer_from_file(f.res.val), gets |-> f.gets]

get_tokenizer(tokenizer, e) ==
    LET f == IF tokenizer = None
             THEN hub_get("tokenizer.json", HubTokenizerFile, e.hub_tokenizer, e)
             ELSE [res |-> Ok(tokenizer.val), gets |-> <<>>]
    IN  IF IsErr(f.res) THEN f
        ELSE [res |-> Tokenizer_from_file(f.res.val), gets |-> f.gets]

\* clip::ClipConfig::vit_base_patch32()
vit_base_patch32 == [image_size |-> ImageSize, projection_dim |-> ProjectionDim]

\* VarBuilder::from_mmaped_safetensors(&[model_file], DType::F32, &device)?
from_mmaped_safetensors(file) ==
    CASE FileKind(file) = "weights"         -> Ok([complete |-> TRUE])
      [] FileKind(file) = "partial_weights" -> Ok([complete |-> FALSE])
      [] FileKind(file) = "absent"          -> Err("WeightsFileNotFound")
      [] OTHER                              -> Err("SafetensorsParseError")

\* clip::ClipModel::new(vb, &config)?
ClipModel_new(vb, config) ==
    IF vb.complete THEN Ok([weights |-> "clip-vit-base-patch32", seed |-> 1])
    ELSE Err("MissingTensor")

----------------------------------------------------------------------------
(* ClipEmbedder::new: the value it returns and what it did on the way.     *)

new(model_path, tokenizer_path, use_cpu, e) ==
    LET d  == get_device(use_cpu, e)
        mf == resolve_model_file(model_path, e)
        tk == get_tokenizer(tokenizer_path, e)
        config == vit_base_patch32
        vb == from_mmaped_safetensors(mf.res.val)
        model == ClipModel_new(vb.val, config)
        out(r, g, s) == [res |-> r, device_sel |-> d, gets |-> g, steps |-> s]
    IN  IF IsErr(d.res) THEN out(d.res, <<>>, <<"get_device">>)
        ELSE IF IsErr(mf.res) THEN
            out(mf.res, mf.gets, <<"get_device", "model_file">>)
        ELSE IF IsErr(tk.res) THEN
            out(tk.res, mf.gets \o tk.gets,
                <<"get_device", "model_file", "get_tokenizer">>)
        ELSE IF IsErr(vb) THEN
            out(vb, mf.gets \o tk.gets,
                <<"get_device", "model_file", "get_tokenizer", "config", "var_builder">>)
        ELSE IF IsErr(model) THEN
            out(model, mf.gets \o tk.gets,
                <<"get_device", "model_file", "get_tokenizer", "config", "var_builder",
                  "clip_model">>)
        ELSE
            out(Ok([model |-> model.val, tokenizer |-> tk.res.val,
                    config |-> config, device |-> d.res.val]),
                mf.gets \o tk.gets,
                <<"get_device", "model_file", "get_tokenizer", "config", "var_builder",
                  "clip_model">>)

----------------------------------------------------------------------------
(* Images.  A decoded image (image::DynamicImage) is its width, its height *)
(* and its RGB bytes in row-major, channel-last order (what to_rgb8()      *)
(* .into_raw() yields).  An encoded image is a byte buffer: a magic byte,  *)
(* the width, the height, then the RGB bytes.                              *)

Magic == 77

SquareImage ==
    [width |-> 2, height |-> 2,
     raw |-> <<0, 128, 255,   255, 0, 64,
               10, 20, 30,    200, 100, 50>>]

WideImage ==
    [width |-> 3, height |-> 2,
     raw |-> <<255, 255, 255,   0, 0, 0,      90, 60, 30,
               5, 250, 125,     40, 80, 160,  255, 0, 255>>]

Images == {SquareImage, WideImage}

encode_image(img) == <<Magic, img.width, img.height>> \o img.raw

CorruptBytes == <<Magic, 2, 2, 9, 9, 9>>

\* image::ImageReader::decode / image::load_from_memory
decode(bytes) ==
    IF Len(bytes) < 3 THEN Err("DecodeError")
    ELSE IF bytes[1] # Magic THEN Err("DecodeError")
    ELSE IF Len(bytes) # 3 + bytes[2] * bytes[3] * RgbChannels THEN Err("DecodeError")
    ELSE Ok([width |-> bytes[2], height |-> bytes[3],
             raw |-> SubSeq(bytes, 4, Len(bytes))])

ImagePaths == {"assets/square.jpg", "assets/wide.jpg", "assets/corrupt.jpg",
               "assets/missing.jpg"}

\* image::ImageReader::open(path)?
open(path) ==
    CASE path = "assets/square.jpg"  -> Ok(encode_image(SquareImage))
      [] path = "assets/wide.jpg"    -> Ok(encode_image(WideImage))
      [] path = "assets/corrupt.jpg" -> Ok(CorruptBytes)
      [] OTHER                       -> Err("NotFoundError")

----------------------------------------------------------------------------
(* DynamicImage::resize_to_fill(width, height, FilterType::Triangle)       *)

Max(x, y) == IF x >= y THEN x ELSE y
Min(x, y) == IF x <= y THEN x ELSE y
Clamp(x, lo, hi) == Max(lo, Min(x, hi))

\* round(n / d) for n >= 0, d > 0
RoundDiv(n, d) == (2 * n + d) \div (2 * d)

Pixel(img, x, y, c) == img.raw[(y * img.width + x) * RgbChannels + c + 1]

\* image::math::utils::resize_dimensions(width, height, nwidth, nheight, fill = true)
resize_dimensions(width, height, nwidth, nheight) ==
    IF nwidth * height >= nheight * width
    THEN <<Max(nwidth, 1), Max(RoundDiv(height * nwidth, width), 1)>>
    ELSE <<Max(RoundDiv(width * nheight, height), 1), Max(nheight, 1)>>

\* Where output sample i of n_out falls among n_in input samples, with the
\* linear (triangle) weight of its right-hand neighbour: fr / den.
Tap(n_in, n_out, i) ==
    LET num == (2 * i + 1) * n_in - n_out
        den == 2 * n_out
        lo  == num \div den
    IN  [lo |-> Clamp(lo, 0, n_in - 1), hi |-> Clamp(lo + 1, 0, n_in - 1),
         fr |-> num % den, den |-> den]

\* DynamicImage::resize_exact(w2, h2, Triangle), rounded to u8
resize_exact(img, w2, h2) ==
    [width |-> w2, height |-> h2,
     raw |-> [k \in 1 .. w2 * h2 * RgbChannels |->
        LET c  == (k - 1) % RgbChannels
            x  == ((k - 1) \div RgbChannels) % w2
            y  == (k - 1) \div (RgbChannels * w2)
            tx == Tap(img.width, w2, x)
            ty == Tap(img.height, h2, y)
            d  == tx.den * ty.den
            sum == Pixel(img, tx.lo, ty.lo, c) * (tx.den - tx.fr) * (ty.den - ty.fr)
                 + Pixel(img, tx.hi, ty.lo, c) * tx.fr * (ty.den - ty.fr)
                 + Pixel(img, tx.lo, ty.hi, c) * (tx.den - tx.fr) * ty.fr
                 + Pixel(img, tx.hi, ty.hi, c) * tx.fr * ty.fr
        IN  (2 * sum + d) \div (2 * d)]]

\* DynamicImage::crop(x0, y0, w, h)
crop(img, x0, y0, w, h) ==
    [width |-> w, height |-> h,
     raw |-> [k \in 1 .. w * h * RgbChannels |->
        LET c == (k - 1) % RgbChannels
            x == ((k - 1) \div RgbChannels) % w
            y == (k - 1) \div (RgbChannels * w)
        IN  Pixel(img, x0 + x, y0 + y, c)]]

resize_to_fill(img, nwidth, nheight) ==
    LET dims == resize_dimensions(img.width, img.height, nwidth, nheight)
        intermediate == resize_exact(img, dims[1], dims[2])
        ratio  == intermediate.width * nheight
        nratio == nwidth * intermediate.height
    IN  IF nratio > ratio
        THEN crop(intermediate, 0, (intermediate.height - nheight) \div 2, nwidth, nheight)
        ELSE crop(intermediate, (intermediate.width - nwidth) \div 2, 0, nwidth, nheight)

----------------------------------------------------------------------------
(* Tensors: a shape, the elements in row-major order, a dtype, a device.   *)
(* F32 elements are in units of 1/255.                                     *)

Product(shape) ==
    LET RECURSIVE P(_)
        P(i) == IF i > Len(shape) THEN 1 ELSE shape[i] * P(i + 1)
    IN  P(1)

\* Tensor::from_vec(data, shape, device)?
Tensor_from_vec(data, shape, device) ==
    IF Len(data) # Product(shape) THEN Err("ShapeMismatch")
    ELSE Ok([shape |-> shape, data |-> data, dtype |-> "U8", device |-> device])

\* .permute((2, 0, 1)) of an (h, w, c) tensor: element (ch, y, x) of the
\* result is element (y, x, ch) of the argument.
permute_2_0_1(t) ==
    LET h == t.shape[1]
        w == t.shape[2]
        c == t.shape[3]
    IN  [t EXCEPT !.shape = <<c, h, w>>,
                  !.data = [k \in 1 .. Len(t.data) |->
                      LET ch == (k - 1) \div (h * w)
                          y  == ((k - 1) % (h * w)) \div w
                          x  == (k - 1) % w
                      IN  t.data[(y * w + x) * c + ch + 1]]]

\* .to_dtype(DType::F32)?.affine(2. / 255., -1.)?  In units of 1/255:
\* v * (2/255) - 1 = (2 v - 255) / 255.
to_f32_affine(t) ==
    [t EXCEPT !.dtype = "F32",
              !.data = [k \in 1 .. Len(t.data) |-> 2 * t.data[k] - MaxPixel]]

\* lib.rs:114-126, from the decoded image on
normalize_decoded(img, image_size) ==
    LET height == image_size
        width  == image_size
        filled == resize_to_fill(img, width, height)
        t      == Tensor_from_vec(filled.raw, <<height, width, RgbChannels>>, "Cpu")
    IN  IF IsErr(t) THEN t
        ELSE Ok(to_f32_affine(permute_2_0_1(t.val)))

\* Mutants of load_image: the channel-last layout left as decoded (no
\* permute), and pixel values scaled to [0, 1] instead of [-1, 1].
load_image_no_permute(path, image_size) ==
    LET f == open(path)
        img == decode(f.val)
        filled == resize_to_fill(img.val, image_size, image_size)
        t == Tensor_from_vec(filled.raw, <<image_size, image_size, RgbChannels>>, "Cpu")
    IN  IF IsErr(f) THEN f
        ELSE IF IsErr(img) THEN img
        ELSE IF IsErr(t) THEN t
        ELSE Ok([to_f32_affine(t.val) EXCEPT
                    !.shape = <<RgbChannels, image_size, image_size>>])

load_image(path, image_size) ==
    LET f == open(path)
        img == decode(f.val)
    IN  IF IsErr(f) THEN f
        ELSE IF IsErr(img) THEN img
        ELSE normalize_decoded(img.val, image_size)

\* Spec 4.2, steps 2-4, for an image that is already decoded: resize-to-fill
\* to image_size x image_size, channel-first layout, value * (2/255) - 1.
image_normalizer(img, image_size) ==
    LET filled == resize_to_fill(img, image_size, image_size)
        chw == [k \in 1 .. RgbChannels * image_size * image_size |->
                   LET ch == (k - 1) \div (image_size * image_size)
                       y  == ((k - 1) % (image_size * image_size)) \div image_size
                       x  == (k - 1) % image_size
                   IN  Pixel(filled, x, y, ch)]
    IN  Ok([shape |-> <<RgbChannels, image_size, image_size>>,
            data |-> [k \in 1 .. Len(chw) |-> 2 * chw[k] - MaxPixel],
            dtype |-> "F32", device |-> "Cpu"])

\* Spec 4.2, step 1 for a raw encoded byte buffer, then steps 2-4.
image_normalizer_from_bytes(bytes, image_size) ==
    LET img == decode(bytes)
    IN  IF IsErr(img) THEN img ELSE image_normalizer(img.val, image_size)

\* The first steps, tabulated once per input and image size.
Sizes == 1 .. ImageSize
ImageBuffers == {encode_image(i) : i \in Images} \cup {CorruptBytes}
load_image_of == [path \in ImagePaths, size \in Sizes |-> load_image(path, size)]
image_normalizer_of == [img \in Images, size \in Sizes |-> image_normalizer(img, size)]
image_normalizer_from_bytes_of ==
    [bytes \in ImageBuffers, size \in Sizes |-> image_normalizer_from_bytes(bytes, size)]

----------------------------------------------------------------------------
(* Tensor operations used by the embedding calls *)

unsqueeze_0(t) == [t EXCEPT !.shape = <<1>> \o t.shape]

to_device(t, device) == [t EXCEPT !.device = device]

\* squeeze(0): drops the leading dimension when it is 1
squeeze_0(t) ==
    IF Len(t.shape) >= 1 /\ t.shape[1] = 1 THEN [t EXCEPT !.shape = Tail(t.shape)] ELSE t

\* to_vec1::<f32>()?
to_vec1(t) ==
    IF Len(t.shape) = 1 THEN Ok(t.data) ELSE Err("UnexpectedNumberOfDims")

RECURSIVE SeqSum(_)
SeqSum(xs) == IF xs = <<>> THEN 0 ELSE Head(xs) + SeqSum(Tail(xs))

\* clip::ClipModel::get_image_features: a fixed projection of the batched
\* image tensor to (1, projection_dim).
get_image_features(model, config, t) ==
    IF t.shape # <<1, RgbChannels, config.image_size, config.image_size>>
    THEN Err("ShapeMismatch")
    ELSE Ok([shape |-> <<1, config.projection_dim>>,
             data |-> [k \in 1 .. config.projection_dim |->
                 LET term(i) == (((i \div k) + model.seed) % 2) * (t.data[i] + MaxPixel)
                 IN  MaxPixel + SeqSum([i \in 1 .. Len(t.data) |-> term(i)])],
             dtype |-> "F32", device |-> t.device])

\* Mutant: the text tower hands out its hidden state, one element wider than
\* the projection.
get_text_features_hidden(model, config, ids) ==
    IF Len(ids.shape) # 2 \/ ids.shape[1] # 1 THEN Err("ShapeMismatch")
    ELSE Ok([shape |-> <<1, config.projection_dim + 1>>,
             data |-> [k \in 1 .. config.projection_dim + 1 |->
                 LET term(i) == ids.data[i] * (1 + ((i + k + model.seed) % 2))
                 IN  MaxPixel * SeqSum([i \in 1 .. Len(ids.data) |-> term(i)])],
             dtype |-> "F32", device |-> ids.device])

\* clip::ClipModel::get_text_features: a fixed projection of the batched
\* token ids to (1, projection_dim).
get_text_features(model, config, ids) ==
    IF Len(ids.shape) # 2 \/ ids.shape[1] # 1 THEN Err("ShapeMismatch")
    ELSE Ok([shape |-> <<1, config.projection_dim>>,
             data |-> [k \in 1 .. config.projection_dim |->
                 LET term(i) == ids.data[i] * (1 + ((i + k + model.seed) % 2))
                 IN  MaxPixel * SeqSum([i \in 1 .. Len(ids.data) |-> term(i)])],
             dtype |-> "F32", device |-> ids.device])

\* A text is the sequence of its words, each an index into the vocabulary.
Texts == {<<1>>, <<2, 1>>}

\* Tokenizer::encode(text, true), get_ids(): the boundary tokens are added.
encode(tokenizer, text, add_special_tokens) ==
    LET ids == [i \in 1 .. Len(text) |-> tokenizer.base + text[i]]
    IN  IF add_special_tokens THEN <<tokenizer.bos>> \o ids \o <<tokenizer.eos>>
        ELSE ids

\* Tensor::new(vec![tokens], &device)?
Tensor_new_batch(tokens, device) ==
    [shape |-> <<1, Len(tokens)>>, data |-> tokens, dtype |-> "U32", device |-> device]

----------------------------------------------------------------------------
(* cosine_similarity (main.rs:117-127; the same function is in             *)
(* tests/integration_test.rs:4-14 and examples/multi_input_test.rs:73-83). *)
(* An f32 quotient dot / (sqrt(p) * sqrt(q)) is kept exactly, as the       *)
(* triple of dot, p and q; 0.0 is the one value with dot = 0.              *)

Zero == [dot |-> 0, norm_a_sq |-> 1, norm_b_sq |-> 1]
NaN  == [dot |-> "NaN"]
Infinity(sign) == [dot |-> "Inf", sign |-> sign]

\* a.iter().zip(b.iter()).map(|(x, y)| x * y).sum(): zip stops at the shorter
dot_product(a, b) ==
    LET term(i) == a[i] * b[i]
    IN  SeqSum([i \in 1 .. Min(Len(a), Len(b)) |-> term(i)])

\* a.iter().map(|x| x * x).sum::<f32>(): the square of the norm
sum_squares(a) ==
    LET term(i) == a[i] * a[i]
    IN  SeqSum([i \in 1 .. Len(a) |-> term(i)])

\* dot / (norm_a * norm_b) in f32 arithmetic, norm_x = sqrt(x_sq)
f32_div(dot, norm_a_sq, norm_b_sq) ==
    IF norm_a_sq = 0 \/ norm_b_sq = 0
    THEN IF dot = 0 THEN NaN ELSE Infinity(IF dot > 0 THEN 1 ELSE -1)
    ELSE IF dot = 0 THEN Zero
    ELSE [dot |-> dot, norm_a_sq |-> norm_a_sq, norm_b_sq |-> norm_b_sq]

\* Mutant: the quotient without the zero-norm guard.
cosine_similarity_unguarded(a, b) ==
    f32_div(dot_product(a, b), sum_squares(a), sum_squares(b))

cosine_similarity(a, b) ==
    LET dot == dot_product(a, b)
        norm_a_sq == sum_squares(a)
        norm_b_sq == sum_squares(b)
    IN  IF norm_a_sq = 0 \/ norm_b_sq = 0 THEN Zero
        ELSE f32_div(dot, norm_a_sq, norm_b_sq)

\* Natural numbers beyond 32-bit integers: base-10000
\* digits, least significant first.
Base == 100 * 100

RECURSIVE ToBig(_)
ToBig(n) == IF n < Base THEN <<n>> ELSE <<n % Base>> \o ToBig(n \div Base)

RECURSIVE BigCarry(_, _)
BigCarry(digits, carry) ==
    IF digits = <<>> THEN (IF carry = 0 THEN <<>> ELSE ToBig(carry))
    ELSE <<(digits[1] + carry) % Base>>
         \o BigCarry(Tail(digits), (digits[1] + carry) \div Base)

BigMul(x, y) ==
    LET n == Len(x) + Len(y) - 1
        col(k) == LET term(i) == IF k + 1 - i >= 1 /\ k + 1 - i <= Len(y)
                                 THEN x[i] * y[k + 1 - i] ELSE 0
                  IN  SeqSum([i \in 1 .. Len(x) |-> term(i)])
    IN  BigCarry([k \in 1 .. n |-> col(k)], 0)

RECURSIVE BigStrip(_)
BigStrip(x) ==
    IF Len(x) > 1 /\ x[Len(x)] = 0 THEN BigStrip(SubSeq(x, 1, Len(x) - 1)) ELSE x

RECURSIVE BigLessFrom(_, _, _)
BigLessFrom(x, y, i) ==
    IF i = 0 THEN FALSE
    ELSE IF x[i] # y[i] THEN x[i] < y[i]
    ELSE BigLessFrom(x, y, i - 1)

BigLess(x, y) ==
    LET sx == BigStrip(x)
        sy == BigStrip(y)
    IN  IF Len(sx) # Len(sy) THEN Len(sx) < Len(sy)
        ELSE BigLessFrom(sx, sy, Len(sx))

\* c > num / den for an f32 quotient c:  dot / sqrt(p q) > num / den  iff
\* dot > 0 and dot^2 den^2 > num^2 p q.
QuotientAbove(c, num, den) ==
    /\ c.dot \in Int
    /\ c.dot > 0
    /\ BigLess(BigMul(BigMul(ToBig(num * num), ToBig(c.norm_a_sq)), ToBig(c.norm_b_sq)),
               BigMul(BigMul(ToBig(c.dot), ToBig(c.dot)), ToBig(den * den)))

\* sum of |a_i - b_i| (examples/multi_input_test.rs:42-43)
l1_difference(a, b) ==
    LET term(i) == IF a[i] >= b[i] THEN a[i] - b[i] ELSE b[i] - a[i]
    IN  SeqSum([i \in 1 .. Min(Len(a), Len(b)) |-> term(i)])

----------------------------------------------------------------------------
(* The requests and what each returns when it runs by itself.  A request   *)
(* names the operation and its input; fault records the failure the        *)
(* tokenizer, the device or the model inflicted on this call, if any.      *)

ImageOps == {"get_image_embedding", "get_image_embedding_from_dynamic",
             "get_image_embedding_from_bytes"}

Request(op, input) == [op |-> op, input |-> input, fault |-> "none"]

\* The first step of an image operation: the canonical tensor or the error.
first_step(e, r) ==
    CASE r.op = "get_image_embedding" -> load_image_of[r.input, e.config.image_size]
      [] r.op = "get_image_embedding_from_dynamic" ->
             image_normalizer_of[r.input, e.config.image_size]
      [] r.op = "get_image_embedding_from_bytes" ->
             image_normalizer_from_bytes_of[r.input, e.config.image_size]

\* lib.rs:62-68 and 77-87 run start to end on Embedder e.
run_alone(e, r) ==
    IF r.op \in ImageOps THEN
        LET img == first_step(e, r)
            feats == get_image_features(e.model, e.config,
                                        to_device(unsqueeze_0(img.val), e.device))
        IN  IF IsErr(img) THEN img
            ELSE IF r.fault = "transfer" THEN Err("DeviceError")
            ELSE IF r.fault = "forward" THEN Err("ComputeError")
            ELSE IF IsErr(feats) THEN feats
            ELSE to_vec1(squeeze_0(feats.val))
    ELSE
        LET tokens == encode(e.tokenizer, r.input, TRUE)
            feats == get_text_features(e.model, e.config,
                                       Tensor_new_batch(tokens, e.device))
        IN  IF r.fault = "encode" THEN Err("TokenizationError")
            ELSE IF r.fault = "transfer" THEN Err("DeviceError")
            ELSE IF r.fault = "forward" THEN Err("ComputeError")
            ELSE IF IsErr(feats) THEN feats
            ELSE to_vec1(squeeze_0(feats.val))

Threads == 1 .. NumThreads

IdleCalls ==
    /\ pc = [t \in Threads |-> "idle"]
    /\ req = [t \in Threads |-> None]
    /\ tmp = [t \in Threads |-> None]
    /\ result = [t \in Threads |-> Pending]
    /\ trace = [t \in Threads |-> <<>>]
    /\ failed = FALSE

IdleCos ==
    /\ cos_a = <<>>
    /\ cos_b = <<>>
    /\ sim = None

InitNew ==
    /\ args \in ArgsSet
    /\ env \in Envs
    /\ newResult = Pending
    /\ embedder = None
    /\ device_sel = None
    /\ hub_gets = <<>>
    /\ steps = <<>>
    /\ IdleCalls
    /\ IdleCos

\* A constructor that hands out whatever it has built when the model fails to
\* build (the mutant of New).
New_keeps_partial ==
    /\ newResult = Pending
    /\ LET r == new(args.model_path, args.tokenizer_path, args.use_cpu, env)
       IN  /\ newResult' = (IF IsOk(r.res) THEN Ok("ClipEmbedder") ELSE r.res)
           /\ embedder' = (IF IsOk(r.res) THEN Some(r.res.val)
                           ELSE IF r.steps # <<>> /\ r.steps[Len(r.steps)] = "clip_model"
                                THEN Some([model |-> None, tokenizer |-> Vocabulary,
                                           config |-> vit_base_patch32,
                                           device |-> r.device_sel.res.val])
                                ELSE None)
           /\ device_sel' = Some(r.device_sel)
           /\ hub_gets' = r.gets
           /\ steps' = r.steps
    /\ UNCHANGED <<args, env>>
    /\ UNCHANGED callVars
    /\ UNCHANGED cosVars

\* main.rs:28 let embedder = ClipEmbedder::new(args.model, args.tokenizer, args.cpu)?;
New ==
    /\ newResult = Pending
    /\ LET r == new(args.model_path, args.tokenizer_path, args.use_cpu, env)
       IN  /\ newResult' = (IF IsOk(r.res) THEN Ok("ClipEmbedder") ELSE r.res)
           /\ embedder' = (IF IsOk(r.res) THEN Some(r.res.val) ELSE None)
           /\ device_sel' = Some(r.device_sel)
           /\ hub_gets' = r.gets
           /\ steps' = r.steps
    /\ UNCHANGED <<args, env>>
    /\ UNCHANGED callVars
    /\ UNCHANGED cosVars

NextNew == New

SpecNew == InitNew /\ [][NextNew]_vars

----------------------------------------------------------------------------
(* Embedding calls.  Each thread holds &self and runs one call at a time;  *)
(* the steps of different threads interleave.                              *)

\* The constructions of the driver programs: ClipEmbedder::new(None, None,
\* false) with the hub reachable, on a machine with no accelerator, with
\* CUDA, and with Metal.
DriverArgs == [model_path |-> None, tokenizer_path |-> None, use_cpu |-> FALSE]
DriverEnvs ==
    {e \in Envs :
        /\ e.hub_api /\ e.hub_model /\ e.hub_tokenizer
        /\ ~(e.cuda /\ e.metal)
        /\ e.cuda_init = e.cuda /\ e.metal_init = e.metal
        /\ e.macos_aarch64 = e.metal}

Init ==
    /\ args = DriverArgs
    /\ env \in DriverEnvs
    /\ LET r == new(args.model_path, args.tokenizer_path, args.use_cpu, env)
       IN  /\ IsOk(r.res)
           /\ newResult = Ok("ClipEmbedder")
           /\ embedder = Some(r.res.val)
           /\ device_sel = Some(r.device_sel)
           /\ hub_gets = r.gets
           /\ steps = r.steps
    /\ IdleCalls
    /\ IdleCos

Self == embedder.val

\* The call of thread t returns r.
Returns(t, r, step) ==
    /\ result' = [result EXCEPT ![t] = r]
    /\ pc' = [pc EXCEPT ![t] = "returned"]
    /\ tmp' = [tmp EXCEPT ![t] = None]
    /\ trace' = [trace EXCEPT ![t] = Append(@, step)]
    /\ failed' = (failed \/ IsErr(r))

\* The call of thread t goes on to the next step with tensor x in hand.
Proceeds(t, x, step, next) ==
    /\ tmp' = [tmp EXCEPT ![t] = Some(x)]
    /\ pc' = [pc EXCEPT ![t] = next]
    /\ trace' = [trace EXCEPT ![t] = Append(@, step)]
    /\ UNCHANGED <<result, failed>>

\* Mutant: a failed load leaves the Embedder with a smaller image size.
GetImageEmbedding_poison(t) ==
    /\ pc[t] = "idle"
    /\ \E path \in ImagePaths :
        LET img == load_image_of[path, Self.config.image_size]
        IN  /\ req' = [req EXCEPT ![t] = Some(Request("get_image_embedding", path))]
            /\ IF IsErr(img)
               THEN /\ Returns(t, img, "load_image")
                    /\ embedder' = [embedder EXCEPT !.val.config.image_size =
                                       Max(1, @ - 1)]
               ELSE /\ Proceeds(t, img.val, "load_image", "to_device")
                    /\ UNCHANGED embedder
    /\ UNCHANGED <<args, env, newResult, device_sel, hub_gets, steps>>
    /\ UNCHANGED cosVars

\* lib.rs:63  let img = load_image(image_path, self.config.image_size)?;
GetImageEmbedding(t) ==
    /\ pc[t] = "idle"
    /\ \E path \in ImagePaths :
        LET img == load_image_of[path, Self.config.image_size]
        IN  /\ req' = [req EXCEPT ![t] = Some(Request("get_image_embedding", path))]
            /\ IF IsErr(img) THEN Returns(t, img, "load_image")
               ELSE Proceeds(t, img.val, "load_image", "to_device")
    /\ UNCHANGED ctorVars
    /\ UNCHANGED cosVars

\* get_image_embedding_from_dynamic(image): the image is normalized
GetImageEmbeddingFromDynamic(t) ==
    /\ pc[t] = "idle"
    /\ \E image \in Images :
        LET img == image_normalizer_of[image, Self.config.image_size]
        IN  /\ req' = [req EXCEPT ![t] =
                          Some(Request("get_image_embedding_from_dynamic", image))]
            /\ IF IsErr(img) THEN Returns(t, img, "normalize")
               ELSE Proceeds(t, img.val, "normalize", "to_device")
    /\ UNCHANGED ctorVars
    /\ UNCHANGED cosVars

\* get_image_embedding_from_bytes(bytes): the bytes are decoded, the image
\* is normalized
GetImageEmbeddingFromBytes(t) ==
    /\ pc[t] = "idle"
    /\ \E bytes \in ImageBuffers :
        LET img == image_normalizer_from_bytes_of[bytes, Self.config.image_size]
        IN  /\ req' = [req EXCEPT ![t] =
                          Some(Request("get_image_embedding_from_bytes", bytes))]
            /\ IF IsErr(img) THEN Returns(t, img, "decode")
               ELSE Proceeds(t, img.val, "decode", "to_device")
    /\ UNCHANGED ctorVars
    /\ UNCHANGED cosVars

\* Mutant: a failed transfer is tried a second time, on the general-purpose
\* processor, and the call goes on as if nothing had happened.
ImageToDevice_retry(t) ==
    /\ pc[t] = "to_device"
    /\ req[t].val.op \in ImageOps
    /\ \/ /\ Proceeds(t, to_device(unsqueeze_0(tmp[t].val), Self.device),
                      "to_device", "forward")
          /\ UNCHANGED req
       \/ /\ req' = [req EXCEPT ![t].val.fault = "transfer"]
          /\ tmp' = [tmp EXCEPT ![t] = Some(to_device(unsqueeze_0(@.val), "Cpu"))]
          /\ pc' = [pc EXCEPT ![t] = "forward"]
          /\ trace' = [trace EXCEPT ![t] = @ \o <<"to_device", "to_device">>]
          /\ UNCHANGED <<result, failed>>
    /\ UNCHANGED ctorVars
    /\ UNCHANGED cosVars

\* lib.rs:64  let img = img.unsqueeze(0)?.to_device(&self.device)?;
ImageToDevice(t) ==
    /\ pc[t] = "to_device"
    /\ req[t].val.op \in ImageOps
    /\ \/ /\ Proceeds(t, to_device(unsqueeze_0(tmp[t].val), Self.device),
                      "to_device", "forward")
          /\ UNCHANGED req
       \/ /\ req' = [req EXCEPT ![t].val.fault = "transfer"]
          /\ Returns(t, Err("DeviceError"), "to_device")
    /\ UNCHANGED ctorVars
    /\ UNCHANGED cosVars

\* Mutant: the forward pass keeps its last features in the Embedder and
\* hands them out again.
ImageForward_cached(t) ==
    /\ pc[t] = "forward"
    /\ req[t].val.op \in ImageOps
    /\ LET feats == IF "cache" \in DOMAIN Self.model THEN Self.model.cache
                    ELSE get_image_features(Self.model, Self.config, tmp[t].val)
       IN  /\ Returns(t, IF IsErr(feats) THEN feats
                         ELSE to_vec1(squeeze_0(feats.val)), "forward")
           /\ embedder' = Some([Self EXCEPT !.model =
                                   [weights |-> Self.model.weights,
                                    seed |-> Self.model.seed, cache |-> feats]])
    /\ UNCHANGED req
    /\ UNCHANGED <<args, env, newResult, device_sel, hub_gets, steps>>
    /\ UNCHANGED cosVars

\* lib.rs:65-67  get_image_features(&img)?, squeeze(0)?.to_vec1::<f32>()?, Ok(embedding)
ImageForward(t) ==
    /\ pc[t] = "forward"
    /\ req[t].val.op \in ImageOps
    /\ \/ LET feats == get_image_features(Self.model, Self.config, tmp[t].val)
          IN  /\ Returns(t, IF IsErr(feats) THEN feats
                            ELSE to_vec1(squeeze_0(feats.val)), "forward")
              /\ UNCHANGED req
       \/ /\ req' = [req EXCEPT ![t].val.fault = "forward"]
          /\ Returns(t, Err("ComputeError"), "forward")
    /\ UNCHANGED ctorVars
    /\ UNCHANGED cosVars

\* lib.rs:78-80  self.tokenizer.encode(text, true).map_err(..)?; get_ids().to_vec()
GetTextEmbedding(t) ==
    /\ pc[t] = "idle"
    /\ \E text \in Texts :
        \/ /\ req' = [req EXCEPT ![t] = Some(Request("get_text_embedding", text))]
           /\ Proceeds(t, encode(Self.tokenizer, text, TRUE), "encode", "to_device")
        \/ /\ req' = [req EXCEPT ![t] =
                         Some([Request("get_text_embedding", text) EXCEPT
                                  !.fault = "encode"])]
           /\ Returns(t, Err("TokenizationError"), "encode")
    /\ UNCHANGED ctorVars
    /\ UNCHANGED cosVars

\* lib.rs:83  let input_ids = Tensor::new(vec![tokens], &self.device)?;
TextToDevice(t) ==
    /\ pc[t] = "to_device"
    /\ req[t].val.op = "get_text_embedding"
    /\ \/ /\ Proceeds(t, Tensor_new_batch(tmp[t].val, Self.device),
                      "to_device", "forward")
          /\ UNCHANGED req
       \/ /\ req' = [req EXCEPT ![t].val.fault = "transfer"]
          /\ Returns(t, Err("DeviceError"), "to_device")
    /\ UNCHANGED ctorVars
    /\ UNCHANGED cosVars

\* lib.rs:84-86  get_text_features(&input_ids)?, squeeze(0)?.to_vec1::<f32>()?, Ok(embedding)
TextForward(t) ==
    /\ pc[t] = "forward"
    /\ req[t].val.op = "get_text_embedding"
    /\ \/ LET feats == get_text_features(Self.model, Self.config, tmp[t].val)
          IN  /\ Returns(t, IF IsErr(feats) THEN feats
                            ELSE to_vec1(squeeze_0(feats.val)), "forward")
              /\ UNCHANGED req
       \/ /\ req' = [req EXCEPT ![t].val.fault = "forward"]
          /\ Returns(t, Err("ComputeError"), "forward")
    /\ UNCHANGED ctorVars
    /\ UNCHANGED cosVars

\* The caller takes the Result; the thread is free for its next call.
Return(t) ==
    /\ pc[t] = "returned"
    /\ pc' = [pc EXCEPT ![t] = "idle"]
    /\ req' = [req EXCEPT ![t] = None]
    /\ result' = [result EXCEPT ![t] = Pending]
    /\ trace' = [trace EXCEPT ![t] = <<>>]
    /\ UNCHANGED <<tmp, failed>>
    /\ UNCHANGED ctorVars
    /\ UNCHANGED cosVars

Next ==
    \E t \in Threads :
        \/ GetImageEmbedding(t)
        \/ GetImageEmbeddingFromDynamic(t)
        \/ GetImageEmbeddingFromBytes(t)
        \/ ImageToDevice(t)
        \/ ImageForward(t)
        \/ GetTextEmbedding(t)
        \/ TextToDevice(t)
        \/ TextForward(t)
        \/ Return(t)

Spec == Init /\ [][Next]_vars

----------------------------------------------------------------------------
(* cosine_similarity applied to two vectors *)

Coords  == (0 - MaxCoord) .. MaxCoord
Vectors == UNION {[1 .. n -> Coords] : n \in 0 .. VecLen}

InitCos ==
    /\ args = DriverArgs
    /\ env = CHOOSE e \in DriverEnvs : ~e.cuda /\ ~e.metal
    /\ newResult = Pending
    /\ embedder = None
    /\ device_sel = None
    /\ hub_gets = <<>>
    /\ steps = <<>>
    /\ IdleCalls
    /\ cos_a \in Vectors
    /\ cos_b \in Vectors
    /\ sim = None

\* main.rs:59  let similarity_1_2 = cosine_similarity(&embedding1, &embedding2);
CosineSimilarity ==
    /\ sim = None
    /\ sim' = Some(cosine_similarity(cos_a, cos_b))
    /\ UNCHANGED <<cos_a, cos_b>>
    /\ UNCHANGED ctorVars
    /\ UNCHANGED callVars

NextCos == CosineSimilarity

SpecCos == InitCos /\ [][NextCos]_vars

----------------------------------------------------------------------------
(* Claims about ClipEmbedder::new and get_device, checked under SpecNew.   *)

Returned == newResult # Pending
Sel      == device_sel.val
InSeq(x, s) == \E i \in 1 .. Len(s) : s[i] = x

\* The outcome of each step of the constructor, read off the arguments and
\* the environment.
DeviceStepOk ==
    \/ args.use_cpu
    \/ env.cuda /\ env.cuda_init
    \/ ~env.cuda /\ env.metal /\ env.metal_init
    \/ ~env.cuda /\ ~env.metal
ModelFileStepOk ==
    args.model_path = None => env.hub_api /\ env.hub_model
TokenizerStepOk ==
    IF args.tokenizer_path = None THEN env.hub_api /\ env.hub_tokenizer
    ELSE args.tokenizer_path.val = "local/tokenizer.json"
WeightsStepsOk ==
    \/ args.model_path = None
    \/ args.model_path = Some("local/model.safetensors")
EveryStepOk ==
    DeviceStepOk /\ ModelFileStepOk /\ TokenizerStepOk /\ WeightsStepsOk

\* C3: construction is all-or-nothing.  When ClipEmbedder::new has returned,
\* an Embedder exists exactly when every step succeeded, new returned Err
\* exactly when some step failed, and an existing Embedder holds a model, a
\* tokenizer, a config and a device.
C3_AllOrNothing ==
    Returned =>
        /\ IsErr(newResult) <=> ~EveryStepOk
        /\ IsErr(newResult) => embedder = None
        /\ embedder # None <=> EveryStepOk
        /\ embedder # None =>
              /\ DOMAIN embedder.val = {"model", "tokenizer", "config", "device"}
              /\ embedder.val.model # None
              /\ embedder.val.tokenizer = Vocabulary
              /\ embedder.val.config = vit_base_patch32
              /\ embedder.val.device \in {"Cpu", "Cuda", "Metal"}

\* C3 witness: the last fallible step (building the model) failed after the
\* device, the model file and the tokenizer were all obtained, and no
\* Embedder exists.
C3_Witness ==
    /\ IsErr(newResult)
    /\ steps # <<>> /\ steps[Len(steps)] = "clip_model"
    /\ embedder = None

\* C4 as stated: get_device returns a device whatever the preference, the
\* availability and the initialization outcome.
C4_NeverFails ==
    Returned => IsOk(Sel.res)

\* C4 amended: get_device fails exactly when the accelerator it picks (CUDA
\* if available, else Metal if available) fails to initialize; in every
\* other case it returns a device, and with use_cpu or with no accelerator
\* available that device is the general-purpose processor.
C4_FailsOnlyOnAcceleratorInit ==
    Returned =>
        /\ IsErr(Sel.res) <=>
              /\ ~args.use_cpu
              /\ \/ env.cuda /\ ~env.cuda_init
                 \/ ~env.cuda /\ env.metal /\ ~env.metal_init
        /\ IsOk(Sel.res) => Sel.res.val \in {"Cpu", "Cuda", "Metal"}
        /\ (args.use_cpu \/ (~env.cuda /\ ~env.metal)) => Sel.res = Ok("Cpu")
        /\ IsErr(Sel.res) => newResult = Sel.res /\ embedder = None

\* C4 witness: CUDA is available, its initialization fails, and get_device
\* returned the error although Metal and the processor were there.
C4_Witness ==
    /\ Returned
    /\ ~args.use_cpu /\ env.cuda /\ ~env.cuda_init /\ env.metal /\ env.metal_init
    /\ Sel.res = Err("CudaInitError")

\* C5: with use_cpu = TRUE get_device yields the general-purpose processor
\* whatever accelerators are present, and runs neither availability probe.
C5_CpuPreferred ==
    (Returned /\ args.use_cpu) =>
        /\ Sel.res = Ok("Cpu")
        /\ Sel.probed = <<>>

\* C5 witness: use_cpu with both accelerators available and working.
C5_Witness ==
    /\ Returned /\ args.use_cpu
    /\ env.cuda /\ env.cuda_init /\ env.metal /\ env.metal_init
    /\ Sel.res = Ok("Cpu")

\* C6 as stated: with use_cpu = FALSE, CUDA is selected when CUDA is
\* available, Metal only when CUDA is unavailable and Metal is available,
\* the processor (with the notice) only when neither is available.
C6_OrderedPreference ==
    (Returned /\ ~args.use_cpu) =>
        /\ env.cuda => Sel.res = Ok("Cuda")
        /\ Sel.res = Ok("Metal") => ~env.cuda /\ env.metal
        /\ Sel.res = Ok("Cpu") => ~env.cuda /\ ~env.metal /\ Sel.notice # "none"

\* C6 amended: with use_cpu = FALSE, when CUDA is available get_device tries
\* CUDA and nothing else (its result is the CUDA device, or CUDA's
\* initialization error); when CUDA is unavailable and Metal is available it
\* tries Metal and nothing else; it returns the processor, with the notice,
\* exactly when neither is available.
C6_OrderedPreferenceOrInitError ==
    (Returned /\ ~args.use_cpu) =>
        /\ env.cuda =>
              Sel.res = (IF env.cuda_init THEN Ok("Cuda") ELSE Err("CudaInitError"))
        /\ (~env.cuda /\ env.metal) =>
              Sel.res = (IF env.metal_init THEN Ok("Metal") ELSE Err("MetalInitError"))
        /\ Sel.res = Ok("Metal") => ~env.cuda /\ env.metal
        /\ Sel.res = Ok("Cpu") <=> ~env.cuda /\ ~env.metal
        /\ Sel.notice # "none" <=> ~env.cuda /\ ~env.metal

\* C6 witness: both accelerators are available and working, and CUDA is the
\* one selected.
C6_Witness ==
    /\ Returned /\ ~args.use_cpu
    /\ env.cuda /\ env.cuda_init /\ env.metal /\ env.metal_init
    /\ Sel.res = Ok("Cuda")

----------------------------------------------------------------------------
(* Claims about the embedding calls, checked under Spec.                   *)

\* The Embedder as ClipEmbedder::new built it from args and env.
Constructed == new(args.model_path, args.tokenizer_path, args.use_cpu, env).res.val

ReturnedOk(t) == pc[t] = "returned" /\ IsOk(result[t])
IsImageCall(t) == req[t] # None /\ req[t].val.op \in ImageOps

\* The decoded image a successful image request is about.
DecodedOf(r) ==
    CASE r.op = "get_image_embedding" -> decode(open(r.input).val).val
      [] r.op = "get_image_embedding_from_bytes" -> decode(r.input).val
      [] r.op = "get_image_embedding_from_dynamic" -> r.input

\* |x| < 1e-5 for x in units of 1/255
Below1e5(x) == x * 100000 < MaxPixel

\* C1: the three image operations, given the same underlying image, hand the
\* model canonical tensors with L1 difference < 1e-5 and return vectors with
\* L1 difference < 1e-5 and cosine similarity > 0.999.
C1_ImagePathsAgree ==
    \A t \in Threads : \A u \in Threads :
        (IsImageCall(t) /\ IsImageCall(u)) =>
            /\ (/\ pc[t] = "to_device" /\ pc[u] = "to_device"
                /\ DecodedOf(req[t].val) = DecodedOf(req[u].val))
               => /\ tmp[t].val.shape = tmp[u].val.shape
                  /\ Below1e5(l1_difference(tmp[t].val.data, tmp[u].val.data))
            /\ (/\ ReturnedOk(t) /\ ReturnedOk(u)
                /\ DecodedOf(req[t].val) = DecodedOf(req[u].val))
               => /\ Len(result[t].val) = Len(result[u].val)
                  /\ Below1e5(l1_difference(result[t].val, result[u].val))
                  /\ QuotientAbove(cosine_similarity(result[t].val, result[u].val),
                                   999, 1000)

\* C1 witness: the non-square image was embedded from its file path by one
\* thread and from its raw bytes by another, and both calls returned Ok.
C1_Witness ==
    /\ ReturnedOk(1) /\ ReturnedOk(2)
    /\ req[1].val.op = "get_image_embedding"
    /\ req[1].val.input = "assets/wide.jpg"
    /\ req[2].val.op = "get_image_embedding_from_bytes"
    /\ req[2].val.input = encode_image(WideImage)

\* C2: a request for a missing or undecodable file returns an error value,
\* and once a request has failed the Embedder is still the one that was
\* constructed and every returned call has the outcome it has when run by
\* itself on that Embedder.
C2_FailureLeavesEmbedderIntact ==
    /\ \A t \in Threads :
          (pc[t] = "returned" /\ req[t].val.op = "get_image_embedding") =>
              /\ req[t].val.input = "assets/missing.jpg"
                    => result[t] = Err("NotFoundError")
              /\ req[t].val.input = "assets/corrupt.jpg"
                    => result[t] = Err("DecodeError")
    /\ failed =>
          /\ embedder = Some(Constructed)
          /\ \A t \in Threads :
                pc[t] = "returned" => result[t] = run_alone(Constructed, req[t].val)

\* C2 witness: a request for the missing file has failed, and the requests
\* the threads hold now, one an image request and one a text request, all
\* returned Ok (the thread whose request failed issued its present request
\* after that failure).
C2_Witness ==
    /\ failed
    /\ \A t \in Threads : ReturnedOk(t)
    /\ req[1].val.op = "get_image_embedding"
    /\ req[2].val.op = "get_text_embedding"

\* C7: every vector a successful embedding call returns, image or text, has
\* the length of the configuration's projection dimension.
C7_EmbeddingLength ==
    \A t \in Threads :
        ReturnedOk(t) =>
            /\ Len(result[t].val) = embedder.val.config.projection_dim
            /\ Len(result[t].val) = ProjectionDim

\* C7 witness: after a failed call, an image embedding and a text embedding
\* have both been returned.
C7_Witness ==
    /\ failed
    /\ ReturnedOk(1) /\ req[1].val.op \in ImageOps
    /\ ReturnedOk(2) /\ req[2].val.op = "get_text_embedding"
    /\ Len(result[1].val) = Len(result[2].val)

\* C8: no step of any embedding call changes the Embedder, and under every
\* interleaving of the threads' steps each call returns what it returns
\* when run by itself.
C8_ReadOnlySharing ==
    /\ [][embedder' = embedder]_vars
    /\ [](\A t \in Threads :
             pc[t] = "returned" => result[t] = run_alone(Constructed, req[t].val))

\* C8 witness: two calls, an image call and a text call, are in the middle
\* of their pipelines at the same time on the one Embedder.
C8_Witness ==
    /\ pc[1] = "forward" /\ req[1].val.op = "get_image_embedding"
    /\ pc[2] = "forward" /\ req[2].val.op = "get_text_embedding"

----------------------------------------------------------------------------
(* Claim about the steps of one embedding call, checked under Spec.        *)

\* The steps of lib.rs:62-68 and lib.rs:77-87, in the order of the code.
PipelineOf(op) ==
    CASE op = "get_image_embedding" -> <<"load_image", "to_device", "forward">>
      [] op = "get_text_embedding"  -> <<"encode", "to_device", "forward">>

\* The errors each step can end the call with.
ErrorsOf(step) ==
    CASE step = "load_image" -> {"NotFoundError", "DecodeError", "ShapeMismatch"}
      [] step = "encode"     -> {"TokenizationError"}
      [] step = "to_device"  -> {"DeviceError"}
      [] step = "forward"    -> {"ComputeError", "ShapeMismatch", "UnexpectedNumberOfDims"}

\* The step at which the tokenizer, the device or the model failed the call.
FaultStep(fault) ==
    CASE fault = "encode"   -> "encode"
      [] fault = "transfer" -> "to_device"
      [] fault = "forward"  -> "forward"

InCodeCall(t) ==
    req[t] # None /\ req[t].val.op \in {"get_image_embedding", "get_text_embedding"}

LastStep(t) == trace[t][Len(trace[t])]

\* C11: within one call of get_image_embedding or get_text_embedding the
\* steps attempted are a prefix of the pipeline (each at most once, in
\* order); a call that returned Err returned the error of the last step it
\* attempted, and that is the step that failed; a call returns Ok only when
\* the whole pipeline ran with no failure; and once a call has returned Err
\* no further step is added to it.
C11_NoRetryNoFallback ==
    /\ [](\A t \in Threads :
            InCodeCall(t) =>
              LET pipeline == PipelineOf(req[t].val.op)
              IN  /\ Len(trace[t]) \in 1 .. Len(pipeline)
                  /\ trace[t] = SubSeq(pipeline, 1, Len(trace[t]))
                  /\ (pc[t] = "returned" /\ IsErr(result[t])) =>
                        result[t].err \in ErrorsOf(LastStep(t))
                  /\ (pc[t] = "returned" /\ IsOk(result[t])) =>
                        /\ trace[t] = pipeline
                        /\ req[t].val.fault = "none"
                  /\ req[t].val.fault # "none" =>
                        /\ pc[t] = "returned" /\ IsErr(result[t])
                        /\ LastStep(t) = FaultStep(req[t].val.fault)
                  /\ (/\ req[t].val.op = "get_image_embedding"
                      /\ req[t].val.input \in {"assets/missing.jpg", "assets/corrupt.jpg"})
                     => /\ pc[t] = "returned" /\ IsErr(result[t])
                        /\ trace[t] = <<"load_image">>)
    /\ [][\A t \in Threads :
            (pc[t] = "returned" /\ IsErr(result[t])) =>
                (trace'[t] = trace[t] \/ trace'[t] = <<>>)]_vars

\* C11 witness: the device transfer of an image call failed after the image
\* was loaded; the call returned that error and the forward pass never ran.
C11_Witness ==
    /\ pc[1] = "returned"
    /\ req[1].val.op = "get_image_embedding"
    /\ result[1] = Err("DeviceError")
    /\ trace[1] = <<"load_image", "to_device">>

----------------------------------------------------------------------------
(* Claim about cosine_similarity, checked under SpecCos.                   *)

ZeroVector(v) == \A i \in 1 .. Len(v) : v[i] = 0

\* C10: cosine_similarity(a, b) is exactly 0.0, and neither NaN nor
\* infinite, whenever a or b has zero norm (both included); otherwise it is
\* dot(a, b) / (norm(a) * norm(b)).
C10_ZeroNormGivesZero ==
    sim # None =>
        /\ (ZeroVector(cos_a) \/ ZeroVector(cos_b)) => sim.val = Zero
        /\ sim.val # NaN /\ sim.val.dot \in Int
        /\ ~(ZeroVector(cos_a) \/ ZeroVector(cos_b)) =>
              sim.val = f32_div(dot_product(cos_a, cos_b),
                                sum_squares(cos_a), sum_squares(cos_b))

\* C10 witness: both vectors are zero vectors of length VecLen and the
\* function returned 0.0.
C10_Witness ==
    /\ sim = Some(Zero)
    /\ Len(cos_a) = VecLen /\ ZeroVector(cos_a)
    /\ Len(cos_b) = VecLen /\ ZeroVector(cos_b)

=============================================================================
